---- MODULE Spec2Model ----
(***************************************************************************)
(* Authentication / session-state core of the Amazon Q extension:          *)
(* ConnectionManager and SsoLogin (auth login module) and the AuthUtil     *)
(* registry (codewhisperer/util/authUtil.ts), driven by a language-server  *)
(* peer.                                                                   *)
(*                                                                         *)
(* Every `await` on the peer or on the persisted storage is a suspension   *)
(* point: an operation is a task that advances from one await to the next  *)
(* in one atomic step, and tasks of overlapping calls interleave.          *)
(***************************************************************************)
EXTENDS Integers, Sequences, FiniteSets, Bags, TLC

VARIABLES
    storage,    \* ConnectionManager.storage entry of AuthUtil.profileName
    session,    \* AuthUtil.session: "undefined" or "sso"
    tasks,      \* the asynchronous calls in flight: a bag of suspended calls
    lastEvent,  \* state of the AuthStateEvent ConnectionManager fired last
    last,       \* history: the step taken last (what it fired and sent, the record
                \* it found in storage) and the call it belongs to
    prev,       \* history: the call that finished before the one in `last`
    opsLeft,    \* calls and notifications the environment may still start
    memento,    \* the legacy store: the entry 'auth.profiles' of the global memento
    cacheDir,   \* where the SSO cache holds the registration and the token file
    registered, \* the profile session.updateProfile registered last
    mig,        \* the migrateExistingConnection call in flight
    mlast,      \* history: the migration step taken last
    registry,   \* the static #instance of AuthUtil and of Auth2, and how many
                \* objects of each class were constructed
    auth2,      \* the Auth2 object in #instance and the profile it persists
    restores,   \* the token fetches Auth2's constructors started
    rlast,      \* history: the call on a registry taken last
    flags,      \* the context keys setVscodeContextProps publishes
    handlers,   \* the stateChangeHandler runs and deleteConnection calls in flight
    events,     \* how many AuthStateEvents were fired
    hlast,      \* history: the step of ConnectionManager or of a handler taken last
    reauth,     \* AuthUtil.reauthenticatePromptShown, the reauthenticate prompts on
                \* screen and the notifyReauthenticate calls in flight
    progress,   \* the GetSsoTokenProgress handler's promise and resolver, and the
                \* progress notifications it opened
    yaml        \* the triggers and the prompts of createYamlExtensionPrompt

authVars == <<storage, session, tasks, lastEvent, last, prev>>
migVars == <<memento, cacheDir, registered, mig, mlast>>
regVars == <<registry, auth2, restores, rlast>>
vars == <<storage, session, tasks, lastEvent, last, prev, opsLeft,
          memento, cacheDir, registered, mig, mlast,
          registry, auth2, restores, rlast,
          flags, handlers, events, hlast, reauth, progress, yaml>>
handlerVars == <<flags, handlers, events, hlast>>
uiVars == <<reauth, progress, yaml>>

---------------------------------------------------------------------------
(* Bounds of the model *)

MaxTasks == 2
MaxOps == 2
MaxProfiles == 2
MaxEvents == 4

---------------------------------------------------------------------------
(* Values *)

builderIdStartUrl == "https://view.awsapps.com/start"
idcStartUrl == "https://example.awsapps.com/start"
StartUrls == {builderIdStartUrl, idcStartUrl}
Regions == {"us-east-1"}
amazonQScopes == {"codewhisperer:completions", "codewhisperer:analysis",
                  "codewhisperer:conversations", "codewhisperer:transformations",
                  "codewhisperer:taskassist"}

AuthStates == {"notConnected", "connected", "expired"}

TokenIds == {"t1", "t2"}

\* GetSsoTokenResult.ssoToken: the id of the token and the access token,
\* encrypted for this client.
SsoToken(tokenId) == [id |-> tokenId, accessToken |-> "jwe:" \o tokenId]

\* AwsErrorCodes of @aws/language-server-runtimes; E_UNKNOWN stands for every
\* code the switch of _getSsoToken does not name.
E_CANCELLED == "E_CANCELLED"
E_SSO_SESSION_NOT_FOUND == "E_SSO_SESSION_NOT_FOUND"
E_PROFILE_NOT_FOUND == "E_PROFILE_NOT_FOUND"
E_INVALID_SSO_TOKEN == "E_INVALID_SSO_TOKEN"
E_CANNOT_REFRESH_SSO_TOKEN == "E_CANNOT_REFRESH_SSO_TOKEN"
E_UNKNOWN == "E_UNKNOWN"
AwsErrorCodes == {E_CANCELLED, E_SSO_SESSION_NOT_FOUND, E_PROFILE_NOT_FOUND,
                  E_INVALID_SSO_TOKEN, E_CANNOT_REFRESH_SSO_TOKEN, E_UNKNOWN}

\* Errors raised by the extension itself.
ErrNoConnectionFound == "SsoLogin: No connection found."
ErrNoValidSession == "No valid session."
ErrCannotReauthenticate == "Cannot reauthenticate non-SSO sessions."
ErrReloginNoConnection == "SsoLogin: no connection found, cannot reauthenticate."
ErrCannotUpdateState == "Cannot update state, connection does not exist."
ErrSetContext == "setContext failed"
ErrNotReady == "AmazonQSsoAuth not ready. Was it initialized with a running LSP?"
ErrNoProfile == "Auth2: Unable to get SSO token, no profile has been created yet."
ErrCannotUpdateTokenId == "Cannot update Token ID, connection is not an SSO connection/doesn't exist"

undefined == [type |-> "undefined"]

\* A login that stores the reserved start URL whatever it was given.
C24_AlwaysBuilderId(startUrl, region) ==
    [type |-> "sso", startUrl |-> builderIdStartUrl, region |-> region,
     scopes |-> amazonQScopes, state |-> "notConnected", tokenId |-> "undefined"]

\* SsoConnection as login() builds it.
SsoConnection(startUrl, region) ==
    [type |-> "sso", startUrl |-> startUrl, region |-> region,
     scopes |-> amazonQScopes, state |-> "notConnected", tokenId |-> "undefined"]

\* A call in flight: the operation, the await it is suspended at, its arguments,
\* the state of existingConn it read, the id of the token in its response, and
\* the error the peer returned to it.
Idle == [op |-> "none", pc |-> "idle", startUrl |-> "", region |-> "",
         ntok |-> "none", kind |-> "none", st0 |-> "none", tok |-> "none",
         perr |-> "none"]

---------------------------------------------------------------------------
(* ConnectionManager and the queries of AuthUtil *)

getConnection == storage

\* A getAuthState whose default, without a stored connection, is connected.
C23_DefaultConnected(c) == IF c = undefined THEN "connected" ELSE c.state

\* AuthUtil.getAuthState(): getConnection(profileName)?.state ?? 'notConnected'
getAuthState(c) == IF c = undefined THEN "notConnected" ELSE c.state

tokenIdOf(c) == IF c = undefined THEN "undefined" ELSE c.tokenId

\* updateConnectionState: the record it stores, and the event it fires.
updateConnectionState(c, state) ==
    IF state # c.state THEN [c EXCEPT !.state = state] ELSE c

\* An updateConnectionState that fires without comparing the states.
C30_AlwaysFires(c, state) == state

eventOfUpdate(c, state) == IF state # c.state THEN state ELSE "none"

\* updateSsoTokenId: the record it stores.
updateSsoTokenId(c, tokenId) ==
    IF c.tokenId # tokenId THEN [c EXCEPT !.tokenId = tokenId] ELSE c

\* A deleteConnection that forgets its storage.update and keeps the record.
C1_KeepRecord(c) == c

\* deleteConnection, second half: storage.update(id, undefined).
storageDelete(c) == undefined

\* A _getSsoToken without the guard on the stored connection.
C2_NeverMissing(c) == FALSE

\* _getSsoToken: the guard on the stored connection.
noConnectionFound(c) == c = undefined

\* An ssoTokenChangedHandler that accepts every token id.
C6_AnyTokenId(ssoTokenId, c) == FALSE

\* ssoTokenChangedHandler: the guard on the notified token id.
isForeignToken(ssoTokenId, c) == ssoTokenId # tokenIdOf(c)

\* A switch whose default case falls into the not-found case.
C11_DefaultDeletes(code) == code # E_INVALID_SSO_TOKEN

\* A switch that lists E_CANNOT_REFRESH_SSO_TOKEN with the not-found codes.
C13_CannotRefreshDeletes(code) ==
    code \in {E_SSO_SESSION_NOT_FOUND, E_PROFILE_NOT_FOUND, E_CANNOT_REFRESH_SSO_TOKEN}

\* _getSsoToken, catch block: the codes whose case calls deleteConnection.
deletesConnection(code) == code \in {E_SSO_SESSION_NOT_FOUND, E_PROFILE_NOT_FOUND}

\* A login that never registers the profile.
C26_NeverUpdatesProfile(startUrl) == TRUE

\* SsoLogin.login: updateProfile is skipped for the Builder ID start URL.
skipsUpdateProfile(startUrl) == startUrl = builderIdStartUrl

\* A fetch that records the encrypted access token in place of the token id.
C25_RecordsAccessToken(ssoToken) == ssoToken.accessToken

\* _getSsoToken: what of response.ssoToken goes into the stored record.
recordedTokenId(ssoToken) == ssoToken.id

\* A relogin without its guard on the stored connection.
C14_SkipGuard(c) == FALSE

\* SsoLogin.relogin: the guard on the stored connection.
reloginNoConnection(c) == c = undefined

\* connect(login): login and relogin pass true, getToken passes nothing; the
\* request carries the flag as loginOnInvalidToken.
getSsoTokenRequest(op) ==
    IF op \in {"login", "relogin"} THEN "getSsoToken:login" ELSE "getSsoToken"

\* A Refreshed case that fetches the token and forgets to push it.
C16_NoPush(op) == FALSE

\* ssoTokenChangedHandler, case 'Refreshed': the fetched token is pushed with
\* updateBearerToken; the other callers of getToken only return it.
pushesBearerToken(op) == op = "ssoTokenChanged"

\* isBuilderIdConnection / isIdcConnection of AuthUtil.
isBuilderIdConnection(c) ==
    c # undefined /\ c.type = "sso" /\ c.startUrl = builderIdStartUrl

\* An isIdcConnection that only tests the connection type.
C15_AnySsoIsIdc(c) == c # undefined /\ c.type = "sso"

isIdcConnection(c) ==
    c # undefined /\ c.type = "sso" /\ c.startUrl # builderIdStartUrl

\* stateChangeHandler(e), up to its first await: the request it sends to the
\* peer. It logs, resets isFreeTierLimitReached and goes on to setContext.
stateChangeHandlerRequest(state) == "none"

---------------------------------------------------------------------------
(* Bookkeeping shared by the steps *)

InFlight == BagToSet(tasks)

NoCall == [op |-> "none", outcome |-> "none"]

\* No step of a call taken yet.
NoStep ==
    [act |-> "Init", op |-> "none", pc |-> "idle", outcome |-> "none", thrown |-> "none",
     perr |-> "none", st0 |-> "none", ntok |-> "none", kind |-> "none",
     tok |-> "none", startUrl |-> "", region |-> "", ev |-> "none", req |-> "none",
     hreq |-> "none", pre |-> undefined]

\* The memento entry: absent (memento.get returns undefined), or the stored
\* profiles in the order Object.values lists them.
noProfiles == [present |-> FALSE, profiles |-> <<>>]

\* The registries once the extension has activated its language client:
\* AuthUtil.create has run once, Auth2 is not in use.
registryCreated ==
    [AuthUtil |-> [instance |-> 1, constructed |-> 1],
     Auth2 |-> [instance |-> 0, constructed |-> 0]]

\* Auth2 without an object and without a persisted profile.
NoAuth2 == [authState |-> "notConnected", ssoTokenId |-> "undefined", profile |-> "undefined"]

NoRegistryCall ==
    [act |-> "none", cls |-> "none", result |-> "none", obj |-> 0, thrown |-> "none",
     req |-> "none", ev |-> "none",
     chat |-> [codewhispererCore |-> "none", codewhispererChat |-> "none", amazonQ |-> "none"],
     pre |-> <<undefined, "none", "undefined", registryCreated, NoAuth2>>]

\* The context keys before any setContext.
unsetFlags == [connected |-> "unset", showLoginView |-> "unset", connectionExpired |-> "unset"]

\* No step of ConnectionManager or of a handler taken yet.
NoHandlerStep ==
    [act |-> "none", n |-> 0, s |-> "none", effect |-> "none", fired |-> "none",
     nfired |-> 0, idc |-> FALSE, req |-> "none", thrown |-> "none", maxn |-> 0,
     later |-> FALSE, lastFired |-> "none", failed |-> FALSE, seen |-> "none",
     pre |-> undefined]

\* No reauthenticate prompt shown yet and no notifyReauthenticate called.
NoReauth ==
    [shown |-> FALSE, open |-> [auto |-> 0, manual |-> 0], setContext |-> 0,
     autoPrompts |-> 0, n |-> 0, act |-> "none", auto |-> FALSE, displayed |-> FALSE]

\* The progress handler's closure as startLanguageServer leaves it: promise is
\* undefined (0) and resolver is the empty function (0).
NoProgress ==
    [promise |-> 0, resolver |-> 0, made |-> 0, unresolved |-> {}, notifications |-> {},
     decrypting |-> [InProgress |-> 0, Complete |-> 0], n |-> 0,
     act |-> "none", state |-> "none"]

\* createYamlExtensionPrompt not called yet.
NoYaml ==
    [created |-> FALSE, triggers |-> {}, closeListener |-> FALSE,
     promptNotifications |-> {}, open |-> <<>>, prompts |-> 0, n |-> 0,
     act |-> "none", wanted |-> FALSE, prompted |-> FALSE]

\* No migration in flight, and no migration step taken yet.
NoMigration == [pc |-> "idle", toImport |-> undefined]

NoMigrationStep ==
    [act |-> "none", outcome |-> "none", req |-> "none", imported |-> FALSE,
     pre |-> <<noProfiles, [registrationFile |-> "missing", tokenFile |-> "missing"],
               undefined>>]

\* What a suspended call still holds: the login arguments until the record is
\* built, existingConn's state while the request is out, the notification's
\* parameters only while the handler checks them.
Suspended(t) ==
    [t EXCEPT !.ntok = "none", !.kind = "none",
              !.st0 = IF t.pc \in {"getSsoToken", "updateSsoTokenId"} THEN @ ELSE "none",
              !.tok = IF t.pc = "updateSsoTokenId" THEN @ ELSE "none",
              !.startUrl = IF t.pc = "updateProfile" THEN @ ELSE "",
              !.region = IF t.pc = "updateProfile" THEN @ ELSE ""]

\* One atomic step of the call suspended as `old` (Idle: a call that starts): it
\* leaves the record st in storage, fires the event ev (whose listener,
\* stateChangeHandler, runs up to its first await inside the step), sends the
\* request req, and either suspends as t (outcome "pending") or finishes ("ok",
\* or "threw" the error thrown).
Step(old, act, t, st, ev, req, outcome, thrown) ==
    /\ storage' = st
    /\ lastEvent' = IF ev = "none" THEN lastEvent ELSE ev
    /\ tasks' = (tasks (-) (IF old = Idle THEN EmptyBag ELSE SetToBag({old})))
                 (+) (IF outcome = "pending" THEN SetToBag({Suspended(t)}) ELSE EmptyBag)
    /\ prev' = IF last.outcome \in {"ok", "threw"}
               THEN [op |-> last.op, outcome |-> last.outcome]
               ELSE prev
    /\ last' = [act |-> act, op |-> t.op, pc |-> t.pc, outcome |-> outcome,
                thrown |-> thrown,
                perr |-> t.perr, st0 |-> t.st0, ntok |-> t.ntok, kind |-> t.kind,
                tok |-> t.tok, startUrl |-> t.startUrl, region |-> t.region,
                ev |-> ev, req |-> req,
                hreq |-> IF ev = "none" THEN "none" ELSE stateChangeHandlerRequest(ev),
                pre |-> storage]
    /\ UNCHANGED <<migVars, regVars, handlerVars, uiVars>>

Call == BagCardinality(tasks) < MaxTasks /\ opsLeft > 0 /\ opsLeft' = opsLeft - 1

---------------------------------------------------------------------------
(* AuthUtil.restore and AuthUtil.refreshState *)

\* refreshState(state = getAuthState()), up to its awaits on the editor:
\* deleteBearerToken when the state is expired, then setContext.
BeginRefreshState(old, act, t, st, ev) ==
    Step(old, act, [t EXCEPT !.pc = "setContext"], st, ev,
         IF getAuthState(st) = "expired" THEN "deleteBearerToken" ELSE "none",
         "pending", "none")

\* How _getSsoToken ends for its caller. SsoLogin.restore logs whatever the
\* fetch throws and returns; AuthUtil.restore goes on with refreshState. Every
\* other caller gets the result.
Finish(old, act, t, st, ev, outcome, thrown) ==
    IF t.op = "restore"
    THEN BeginRefreshState(old, act, t, st, ev)
    ELSE Step(old, act, t, st, ev, "none", outcome, thrown)

Restore ==
    /\ Call
    /\ UNCHANGED session
    /\ LET t == [Idle EXCEPT !.op = "restore", !.st0 = getAuthState(storage)] IN
       IF noConnectionFound(storage)
       THEN BeginRefreshState(Idle, "Restore", t, storage, "none")
       ELSE Step(Idle, "Restore", [t EXCEPT !.pc = "getSsoToken"],
                 storage, "none", getSsoTokenRequest(t.op), "pending", "none")

\* The awaits of refreshState on the editor (setContext, tryExecute) succeed.
SetContextOk(t) ==
    /\ t.pc = "setContext"
    /\ UNCHANGED <<session, opsLeft>>
    /\ Step(t, "SetContextOk", t, storage, "none", "none", "ok", "none")

\* A setContext is rejected: nothing in refreshState or restore catches it.
SetContextFail(t) ==
    /\ t.pc = "setContext"
    /\ UNCHANGED <<session, opsLeft>>
    /\ Step(t, "SetContextFail", t, storage, "none", "none", "threw", ErrSetContext)

---------------------------------------------------------------------------
(* SsoLogin._getSsoToken *)

\* An updateSsoTokenId that stores a record when none is stored.
C35_UpsertsTokenId(c, tokenId) ==
    [thrown |-> "none",
     stored |-> IF c = undefined
                THEN [SsoConnection(builderIdStartUrl, "us-east-1") EXCEPT !.tokenId = tokenId]
                ELSE updateSsoTokenId(c, tokenId)]

\* updateSsoTokenId as _getSsoToken calls it: it throws when no SSO record is
\* stored, else it stores the record with the token id.
updateSsoTokenIdCall(c, tokenId) ==
    IF c = undefined
    THEN [thrown |-> ErrCannotUpdateTokenId, stored |-> c]
    ELSE [thrown |-> "none", stored |-> updateSsoTokenId(c, tokenId)]

\* Up to the request: the guard, then the getSsoToken request.
BeginGetSsoToken(old, act, t) ==
    IF noConnectionFound(storage)
    THEN Step(old, act, t, storage, "none", "none", "threw", ErrNoConnectionFound)
    ELSE Step(old, act, [t EXCEPT !.pc = "getSsoToken", !.st0 = getAuthState(storage)],
              storage, "none", getSsoTokenRequest(t.op), "pending", "none")

\* The request succeeded: updateSsoTokenId.
GetSsoTokenOk(t, tokenId) ==
    /\ t.pc = "getSsoToken"
    /\ UNCHANGED <<session, opsLeft>>
    /\ LET r == updateSsoTokenIdCall(storage, recordedTokenId(SsoToken(tokenId))) IN
       IF r.thrown # "none"
       THEN Finish(t, "GetSsoTokenOk", t, storage, "none", "threw", r.thrown)
       ELSE Step(t, "GetSsoTokenOk", [t EXCEPT !.pc = "updateSsoTokenId", !.tok = tokenId],
                 r.stored, "none", "none", "pending", "none")

\* After updateSsoTokenId: updateConnectionState('connected'), and the caller's rest.
AfterUpdateSsoTokenId(t) ==
    /\ t.pc = "updateSsoTokenId"
    /\ UNCHANGED <<session, opsLeft>>
    /\ IF storage = undefined
       THEN Finish(t, "AfterUpdateSsoTokenId", t, storage, "none", "threw", ErrCannotUpdateState)
       ELSE IF pushesBearerToken(t.op)
       THEN Step(t, "AfterUpdateSsoTokenId", [t EXCEPT !.pc = "updateBearerToken"],
                 updateConnectionState(storage, "connected"),
                 eventOfUpdate(storage, "connected"), "updateBearerToken", "pending", "none")
       ELSE Finish(t, "AfterUpdateSsoTokenId", t,
                   updateConnectionState(storage, "connected"),
                   eventOfUpdate(storage, "connected"), "ok", "none")

\* The request failed with awsErrorCode code: the switch of the catch block.
GetSsoTokenFail(t, code) ==
    /\ t.pc = "getSsoToken"
    /\ UNCHANGED <<session, opsLeft>>
    /\ LET f == [t EXCEPT !.perr = code] IN
       IF deletesConnection(code)
       THEN \* deleteConnection, first half
            IF storage = undefined
            THEN Finish(t, "GetSsoTokenFail", f, storage, "none", "threw", ErrCannotUpdateState)
            ELSE Step(t, "GetSsoTokenFail", [f EXCEPT !.pc = "deleteConnection"],
                      updateConnectionState(storage, "notConnected"),
                      eventOfUpdate(storage, "notConnected"), "none", "pending", "none")
       ELSE IF code = E_INVALID_SSO_TOKEN /\ t.st0 = "connected"
       THEN IF storage = undefined
            THEN Finish(t, "GetSsoTokenFail", f, storage, "none", "threw", ErrCannotUpdateState)
            ELSE Finish(t, "GetSsoTokenFail", f,
                        updateConnectionState(storage, "expired"),
                        eventOfUpdate(storage, "expired"), "threw", code)
       ELSE Finish(t, "GetSsoTokenFail", f, storage, "none", "threw", code)

\* deleteConnection, second half; then the caller's rest: logout returns, the
\* catch block rethrows.
AfterDeleteState(t) ==
    /\ t.pc = "deleteConnection"
    /\ UNCHANGED <<session, opsLeft>>
    /\ IF t.perr = "none"
       THEN Step(t, "AfterDeleteState", t, storageDelete(storage), "none", "none", "ok", "none")
       ELSE Finish(t, "AfterDeleteState", t, storageDelete(storage), "none",
                   "threw", t.perr)

---------------------------------------------------------------------------
(* AuthUtil.login -> SsoLogin.login *)

Login(startUrl, region) ==
    /\ Call
    /\ session' = "sso"
    /\ LET t == [Idle EXCEPT !.op = "login", !.startUrl = startUrl, !.region = region,
                             !.st0 = getAuthState(storage)] IN
       IF ~skipsUpdateProfile(startUrl)
       THEN Step(Idle, "Login", [t EXCEPT !.pc = "updateProfile"], storage,
                 "none", "updateProfile", "pending", "none")
       ELSE Step(Idle, "Login", [t EXCEPT !.pc = "addConnection"],
                 SsoConnection(startUrl, region), "none", "none", "pending", "none")

UpdateProfileOk(t) ==
    /\ t.pc = "updateProfile"
    /\ UNCHANGED <<session, opsLeft>>
    /\ Step(t, "UpdateProfileOk", [t EXCEPT !.pc = "addConnection"],
            SsoConnection(t.startUrl, t.region), "none", "none", "pending", "none")

UpdateProfileFail(t) ==
    /\ t.pc = "updateProfile"
    /\ UNCHANGED <<session, opsLeft>>
    /\ Step(t, "UpdateProfileFail", [t EXCEPT !.perr = E_UNKNOWN], storage,
            "none", "none", "threw", E_UNKNOWN)

\* After addConnection: connect(true).
AfterAddConnection(t) ==
    /\ t.pc = "addConnection"
    /\ UNCHANGED <<session, opsLeft>>
    /\ BeginGetSsoToken(t, "AfterAddConnection", t)

---------------------------------------------------------------------------
(* AuthUtil.relogin -> SsoLogin.relogin *)

Relogin ==
    /\ Call
    /\ UNCHANGED session
    /\ LET t == [Idle EXCEPT !.op = "relogin", !.st0 = getAuthState(storage)] IN
       IF session # "sso"
       THEN Step(Idle, "Relogin", t, storage, "none", "none", "threw", ErrCannotReauthenticate)
       ELSE IF reloginNoConnection(storage)
       THEN Step(Idle, "Relogin", t, storage, "none", "none", "threw", ErrReloginNoConnection)
       ELSE BeginGetSsoToken(Idle, "Relogin", t)

---------------------------------------------------------------------------
(* AuthUtil.logout -> SsoLogin.logout *)

\* deleteConnection, first half: updateConnectionState(id, 'notConnected').
BeginDeleteConnection(old, act, t) ==
    IF storage = undefined
    THEN Step(old, act, t, storage, "none", "none", "threw", ErrCannotUpdateState)
    ELSE Step(old, act, [t EXCEPT !.pc = "deleteConnection"],
              updateConnectionState(storage, "notConnected"),
              eventOfUpdate(storage, "notConnected"), "none", "pending", "none")

Logout ==
    /\ Call
    /\ UNCHANGED session
    /\ LET t == [Idle EXCEPT !.op = "logout", !.st0 = getAuthState(storage)] IN
       IF session # "sso"
       THEN Step(Idle, "Logout", t, storage, "none", "none", "ok", "none")
       ELSE IF tokenIdOf(storage) # "undefined"
       THEN Step(Idle, "Logout", [t EXCEPT !.pc = "invalidateSsoToken"], storage,
                 "none", "invalidateSsoToken", "pending", "none")
       ELSE BeginDeleteConnection(Idle, "Logout", t)

InvalidateSsoTokenOk(t) ==
    /\ t.pc = "invalidateSsoToken"
    /\ UNCHANGED <<session, opsLeft>>
    /\ BeginDeleteConnection(t, "InvalidateSsoTokenOk", t)

InvalidateSsoTokenFail(t) ==
    /\ t.pc = "invalidateSsoToken"
    /\ UNCHANGED <<session, opsLeft>>
    /\ Step(t, "InvalidateSsoTokenFail", [t EXCEPT !.perr = E_UNKNOWN], storage,
            "none", "none", "threw", E_UNKNOWN)

---------------------------------------------------------------------------
(* AuthUtil.getToken -> SsoLogin.getToken *)

GetToken ==
    /\ Call
    /\ UNCHANGED session
    /\ LET t == [Idle EXCEPT !.op = "getToken", !.st0 = getAuthState(storage)] IN
       IF session # "sso"
       THEN Step(Idle, "GetToken", t, storage, "none", "none", "threw", ErrNoValidSession)
       ELSE BeginGetSsoToken(Idle, "GetToken", t)

---------------------------------------------------------------------------
(* AuthUtil.ssoTokenChangedHandler *)

SsoTokenChanged(ssoTokenId, kind) ==
    /\ Call
    /\ UNCHANGED session
    /\ LET t == [Idle EXCEPT !.op = "ssoTokenChanged", !.ntok = ssoTokenId, !.kind = kind,
                             !.st0 = getAuthState(storage)] IN
       IF isForeignToken(ssoTokenId, storage) \/ kind = "Expired"
       THEN Step(Idle, "SsoTokenChanged", t, storage, "none", "none", "ok", "none")
       ELSE IF session # "sso"
       THEN Step(Idle, "SsoTokenChanged", [t EXCEPT !.pc = "updateBearerToken"], storage,
                 "none", "updateBearerToken", "pending", "none")
       ELSE BeginGetSsoToken(Idle, "SsoTokenChanged", t)

UpdateBearerTokenOk(t) ==
    /\ t.pc = "updateBearerToken"
    /\ UNCHANGED <<session, opsLeft>>
    /\ Step(t, "UpdateBearerTokenOk", t, storage, "none", "none", "ok", "none")

UpdateBearerTokenFail(t) ==
    /\ t.pc = "updateBearerToken"
    /\ UNCHANGED <<session, opsLeft>>
    /\ Step(t, "UpdateBearerTokenFail", [t EXCEPT !.perr = E_UNKNOWN], storage,
            "none", "none", "threw", E_UNKNOWN)

---------------------------------------------------------------------------
(* Initial state and specification *)

\* The records a previous run of the extension can have left in the persisted
\* storage: a token id is recorded before the state becomes connected and is
\* kept until the record is replaced or deleted.
PersistedConnections ==
    {undefined} \cup
    {c \in [type : {"sso"}, startUrl : StartUrls, region : Regions, scopes : {amazonQScopes},
            state : AuthStates, tokenId : TokenIds \cup {"undefined"}] :
        c.state # "notConnected" => c.tokenId # "undefined"}

\* AuthUtil's constructor: the session is created iff a connection is stored.
Init ==
    /\ storage \in PersistedConnections
    /\ session = IF storage = undefined THEN "undefined" ELSE "sso"
    /\ tasks = EmptyBag
    /\ lastEvent = "none"
    /\ last = NoStep
    /\ prev = NoCall
    /\ opsLeft = MaxOps
    /\ memento = noProfiles
    /\ cacheDir = [registrationFile |-> "missing", tokenFile |-> "missing"]
    /\ registered = undefined
    /\ mig = NoMigration
    /\ mlast = NoMigrationStep
    /\ registry = registryCreated
    /\ auth2 = NoAuth2
    /\ restores = {}
    /\ rlast = NoRegistryCall
    /\ flags = unsetFlags
    /\ handlers = {}
    /\ events = 0
    /\ hlast = NoHandlerStep
    /\ reauth = NoReauth
    /\ progress = NoProgress
    /\ yaml = NoYaml

Next ==
    \/ \E startUrl \in StartUrls, region \in Regions : Login(startUrl, region)
    \/ \E t \in InFlight : UpdateProfileOk(t)
    \/ \E t \in InFlight : UpdateProfileFail(t)
    \/ \E t \in InFlight : AfterAddConnection(t)
    \/ Relogin
    \/ Logout
    \/ \E t \in InFlight : InvalidateSsoTokenOk(t)
    \/ \E t \in InFlight : InvalidateSsoTokenFail(t)
    \/ GetToken
    \/ \E ssoTokenId \in TokenIds, kind \in {"Expired", "Refreshed"} :
          SsoTokenChanged(ssoTokenId, kind)
    \/ \E t \in InFlight : UpdateBearerTokenOk(t)
    \/ \E t \in InFlight : UpdateBearerTokenFail(t)
    \/ \E t \in InFlight, tokenId \in TokenIds : GetSsoTokenOk(t, tokenId)
    \/ \E t \in InFlight : AfterUpdateSsoTokenId(t)
    \/ \E t \in InFlight, code \in AwsErrorCodes : GetSsoTokenFail(t, code)
    \/ \E t \in InFlight : AfterDeleteState(t)
    \/ Restore
    \/ \E t \in InFlight : SetContextOk(t)
    \/ \E t \in InFlight : SetContextFail(t)

Spec == Init /\ [][Next]_vars

---------------------------------------------------------------------------
(* AuthUtil.migrateExistingConnection *)

\* Scope lists a stored profile can carry besides amazonQScopes: fewer scopes,
\* and more.
codewhispererScopes == {"codewhisperer:completions", "codewhisperer:analysis"}
explorerScopes == amazonQScopes \cup {"sso:account:access"}

\* StoredProfile: an SSO profile with its metadata, or an IAM profile (which has
\* no scopes: p.scopes ?? [] is empty).
StoredProfiles ==
    [type : {"sso"}, scopes : {amazonQScopes, codewhispererScopes, explorerScopes},
     startUrl : StartUrls, ssoRegion : Regions, connectionState : {"valid", "invalid"}]
    \cup
    {[type |-> "iam", scopes |-> {}, startUrl |-> "", ssoRegion |-> "",
      connectionState |-> "valid"]}

RECURSIVE SeqsUpTo(_, _)
SeqsUpTo(S, n) ==
    IF n = 0 THEN {<<>>}
    ELSE LET shorter == SeqsUpTo(S, n - 1)
         IN  shorter \cup {Append(q, x) : q \in shorter, x \in S}

\* hasExactScopes(target, scopes): the two lists hold the same scopes.
hasExactScopes(target, scopes) == target = scopes

\* The loop over Object.values(profiles): every matching profile overwrites
\* toImport, and the loop stops at the first matching profile that is valid.
matching(ps) ==
    {i \in 1..Len(ps) : ps[i].type = "sso" /\ hasExactScopes(ps[i].scopes, amazonQScopes)}

C31_LastMatching(ps) ==
    LET m == matching(ps)
    IN  IF m = {} THEN undefined
        ELSE ps[CHOOSE i \in m : \A j \in m : j <= i]

toImport(ps) ==
    LET m == matching(ps)
        v == {i \in m : ps[i].connectionState = "valid"}
        first(I) == CHOOSE i \in I : \A j \in I : i <= j
        lastOf(I) == CHOOSE i \in I : \A j \in I : j <= i
    IN  IF m = {} THEN undefined
        ELSE IF v # {} THEN ps[first(v)]
        ELSE ps[lastOf(m)]

\* pathed(JSON.stringify({region, startUrl, tool})) and pathed(this.profileName):
\* the hashed names the two cache files are moved to.
toRegistrationFileName(p) == "pathed:" \o p.ssoRegion \o ":" \o p.startUrl
toTokenFileName == "pathed:profileName"

C20_KeepLegacyStore(m) == m
\* memento.update(key, undefined)
clearLegacyStore(m) == noProfiles

\* One step of the migration: it leaves m in the memento, c in the cache
\* directory, r registered, sends req, and suspends as t or ends the call.
MigStep(act, t, m, c, r, req, outcome) ==
    /\ memento' = m
    /\ cacheDir' = c
    /\ registered' = r
    /\ mig' = IF outcome = "pending" THEN t ELSE NoMigration
    /\ mlast' = [act |-> act, outcome |-> outcome, req |-> req,
                 imported |-> mlast.imported \/ act = "ClearProfiles",
                 pre |-> <<memento, cacheDir, registered>>]
    /\ UNCHANGED <<authVars, regVars, handlerVars, uiVars>>

\* The call up to its first await: nothing to do without stored profiles or
\* without a matching one, else session.updateProfile is sent.
MigrateExistingConnection ==
    /\ mig = NoMigration
    /\ opsLeft > 0
    /\ opsLeft' = opsLeft - 1
    /\ LET p == IF memento.present THEN toImport(memento.profiles) ELSE undefined
       IN  IF p = undefined
           THEN MigStep("MigrateExistingConnection", NoMigration,
                        memento, cacheDir, registered, "none", "ok")
           ELSE MigStep("MigrateExistingConnection",
                        [pc |-> "updateProfile", toImport |-> p],
                        memento, cacheDir, registered, "updateProfile", "pending")

\* session.updateProfile resolved: the first fs.rename is issued.
MigUpdateProfileOk ==
    /\ mig.pc = "updateProfile"
    /\ MigStep("MigUpdateProfileOk", [mig EXCEPT !.pc = "renameRegistration"],
               memento, cacheDir,
               [startUrl |-> mig.toImport.startUrl, region |-> mig.toImport.ssoRegion,
                scopes |-> amazonQScopes],
               "none", "pending")
    /\ UNCHANGED opsLeft

MigUpdateProfileFail ==
    /\ mig.pc = "updateProfile"
    /\ MigStep("MigUpdateProfileFail", mig, memento, cacheDir, registered, "none", "threw")
    /\ UNCHANGED opsLeft

C32_SkipTokenMove == "clearProfiles"

\* After the registration file was moved, the token file is moved.
afterRegistrationMoved == "renameToken"

\* fs.rename(registrationFile, toRegistrationFileName) moved the file.
RenameRegistrationOk ==
    /\ mig.pc = "renameRegistration"
    /\ cacheDir.registrationFile = "legacy"
    /\ MigStep("RenameRegistrationOk", [mig EXCEPT !.pc = afterRegistrationMoved], memento,
               [cacheDir EXCEPT !.registrationFile = toRegistrationFileName(mig.toImport)],
               registered, "none", "pending")
    /\ UNCHANGED opsLeft

\* fs.rename rejected: the file is not at its legacy path, or the move failed.
RenameRegistrationFail ==
    /\ mig.pc = "renameRegistration"
    /\ MigStep("RenameRegistrationFail", mig, memento, cacheDir, registered, "none", "threw")
    /\ UNCHANGED opsLeft

\* fs.rename(tokenFile, toTokenFileName) moved the file.
RenameTokenOk ==
    /\ mig.pc = "renameToken"
    /\ cacheDir.tokenFile = "legacy"
    /\ MigStep("RenameTokenOk", [mig EXCEPT !.pc = "clearProfiles"], memento,
               [cacheDir EXCEPT !.tokenFile = toTokenFileName],
               registered, "none", "pending")
    /\ UNCHANGED opsLeft

RenameTokenFail ==
    /\ mig.pc = "renameToken"
    /\ MigStep("RenameTokenFail", mig, memento, cacheDir, registered, "none", "threw")
    /\ UNCHANGED opsLeft

\* memento.update(key, undefined), and the call returns.
ClearProfiles ==
    /\ mig.pc = "clearProfiles"
    /\ MigStep("ClearProfiles", mig, clearLegacyStore(memento), cacheDir, registered,
               "none", "ok")
    /\ UNCHANGED opsLeft

\* What an earlier version of the extension left behind: the profile store and
\* the two cache files at their legacy paths, or nothing.
MigrationInit ==
    /\ storage = undefined
    /\ session = "undefined"
    /\ tasks = EmptyBag
    /\ lastEvent = "none"
    /\ last = NoStep
    /\ prev = NoCall
    /\ opsLeft = MaxOps
    /\ memento \in {noProfiles} \cup
                   {[present |-> TRUE, profiles |-> ps] :
                        ps \in SeqsUpTo(StoredProfiles, MaxProfiles)}
    /\ cacheDir \in [registrationFile : {"legacy", "missing"},
                     tokenFile : {"legacy", "missing"}]
    /\ registered = undefined
    /\ mig = NoMigration
    /\ mlast = NoMigrationStep
    /\ registry = registryCreated
    /\ auth2 = NoAuth2
    /\ restores = {}
    /\ rlast = NoRegistryCall
    /\ flags = unsetFlags
    /\ handlers = {}
    /\ events = 0
    /\ hlast = NoHandlerStep
    /\ reauth = NoReauth
    /\ progress = NoProgress
    /\ yaml = NoYaml

MigrationNext ==
    \/ MigrateExistingConnection
    \/ MigUpdateProfileOk
    \/ MigUpdateProfileFail
    \/ RenameRegistrationOk
    \/ RenameRegistrationFail
    \/ RenameTokenOk
    \/ RenameTokenFail
    \/ ClearProfiles

MigrationSpec == MigrationInit /\ [][MigrationNext]_vars

---------------------------------------------------------------------------
(* The registries: AuthUtil.create / AuthUtil.instance, Auth2.create /     *)
(* Auth2.instance, and the synchronous queries made through them           *)

\* The getters' test: !this.#instance.
instanceNotReady(r) == r.instance = 0

\* new this(...): the object constructed next.
construct(r) == [instance |-> r.constructed + 1, constructed |-> r.constructed + 1]

\* AuthUtil.create: this.#instance ??= new this(lspAuth).
createOnce(r) == IF r.instance = 0 THEN construct(r) ELSE r

\* Auth2.create: Auth2.#instance = new Auth2(client).
createAgain(r) == construct(r)

\* AuthUtil's constructor: the session it creates for the stored connection.
sessionFor(c) == IF c = undefined THEN "undefined" ELSE c.type

\* AuthUtil.isConnected() and AuthUtil.isConnectionExpired()
isConnected(c) == getAuthState(c) = "connected"

isConnectionExpired(c) == getAuthState(c) = "expired"

Bool(b) == IF b THEN "true" ELSE "false"

\* A conversion that passes every state through.
C40_Unconverted(state) == state

\* authApi.getChatAuthState: state === 'notConnected' ? 'disconnected' : state
convertedState(state) == IF state = "notConnected" THEN "disconnected" ELSE state

\* The object authApi.getChatAuthState returns for the auth state `state`.
getChatAuthState(state) ==
    [codewhispererCore |-> convertedState(state),
     codewhispererChat |-> convertedState(state),
     amazonQ |-> convertedState(state)]

\* One call on a registry, or one step of a fetch an Auth2 constructor started.
RegStep(act, cls, reg, a2, rs, sess, result, obj, thrown, req, ev) ==
    /\ registry' = reg
    /\ auth2' = a2
    /\ restores' = rs
    /\ session' = sess
    /\ rlast' = [act |-> act, cls |-> cls, result |-> result, obj |-> obj,
                 thrown |-> thrown, req |-> req, ev |-> ev,
                 chat |-> IF act = "getChatAuthState" /\ thrown = "none"
                          THEN getChatAuthState(getAuthState(storage))
                          ELSE NoRegistryCall.chat,
                 pre |-> <<storage, lastEvent, session, registry, auth2>>]
    /\ UNCHANGED <<storage, tasks, lastEvent, last, prev, migVars, handlerVars, uiVars>>

RegCall == opsLeft > 0 /\ opsLeft' = opsLeft - 1

\* AuthUtil.create(lspAuth)
CreateAuthUtil ==
    /\ RegCall
    /\ LET r == createOnce(registry.AuthUtil) IN
       RegStep("Create", "AuthUtil", [registry EXCEPT !.AuthUtil = r], auth2, restores,
               IF instanceNotReady(registry.AuthUtil) THEN sessionFor(storage) ELSE session,
               "object", r.instance, "none", "none", "none")

\* AuthUtil.instance
AuthUtilInstance ==
    /\ RegCall
    /\ IF instanceNotReady(registry.AuthUtil)
       THEN RegStep("Instance", "AuthUtil", registry, auth2, restores, session,
                    "none", 0, ErrNotReady, "none", "none")
       ELSE RegStep("Instance", "AuthUtil", registry, auth2, restores, session,
                    "object", registry.AuthUtil.instance, "none", "none", "none")

\* AuthUtil.instance.getAuthState(), .isConnected(), .isConnectionExpired()
AuthUtilQuery(q) ==
    /\ RegCall
    /\ IF instanceNotReady(registry.AuthUtil)
       THEN RegStep(q, "AuthUtil", registry, auth2, restores, session,
                    "none", 0, ErrNotReady, "none", "none")
       ELSE RegStep(q, "AuthUtil", registry, auth2, restores, session,
                    CASE q = "getAuthState" -> getAuthState(storage)
                      [] q = "isConnected" -> Bool(isConnected(storage))
                      [] q = "isConnectionExpired" -> Bool(isConnectionExpired(storage)),
                    registry.AuthUtil.instance, "none", "none", "none")

\* authApi.getChatAuthState(): AuthUtil.instance.getAuthState(), converted.
GetChatAuthState ==
    /\ RegCall
    /\ IF instanceNotReady(registry.AuthUtil)
       THEN RegStep("getChatAuthState", "authApi", registry, auth2, restores, session,
                    "none", 0, ErrNotReady, "none", "none")
       ELSE RegStep("getChatAuthState", "authApi", registry, auth2, restores, session,
                    "object", registry.AuthUtil.instance, "none", "none", "none")

\* Auth2.create(client): a new object replaces #instance; its constructor
\* starts getToken(false) when a profile is persisted.
CreateAuth2 ==
    /\ RegCall
    /\ LET r == createAgain(registry.Auth2) IN
       RegStep("Create", "Auth2", [registry EXCEPT !.Auth2 = r],
               [auth2 EXCEPT !.authState = "notConnected", !.ssoTokenId = "undefined"],
               IF auth2.profile = "undefined" THEN restores
               ELSE restores \cup {[inst |-> r.instance, pc |-> "getSsoToken", tok |-> "none"]},
               session, "object", r.instance, "none",
               IF auth2.profile = "undefined" THEN "none" ELSE "getSsoToken", "none")

\* Auth2.instance: without an object, a stub whose getAuthState answers
\* 'notConnected'.
Auth2Instance ==
    /\ RegCall
    /\ IF instanceNotReady(registry.Auth2)
       THEN RegStep("Instance", "Auth2", registry, auth2, restores, session,
                    "stub", 0, "none", "none", "none")
       ELSE RegStep("Instance", "Auth2", registry, auth2, restores, session,
                    "object", registry.Auth2.instance, "none", "none", "none")

\* Auth2.instance.getAuthState()
Auth2GetAuthState ==
    /\ RegCall
    /\ RegStep("getAuthState", "Auth2", registry, auth2, restores, session,
               IF instanceNotReady(registry.Auth2) THEN "notConnected" ELSE auth2.authState,
               registry.Auth2.instance, "none", "none", "none")

\* The constructor's getToken(false): getSsoToken resolved, listProfiles is sent.
Auth2GetSsoTokenOk(t, tokenId) ==
    /\ t.pc = "getSsoToken"
    /\ RegStep("Auth2GetSsoTokenOk", "Auth2", registry, auth2,
               (restores \ {t}) \cup {[t EXCEPT !.pc = "listProfiles", !.tok = tokenId]},
               session, "none", t.inst, "none", "listProfiles", "none")
    /\ UNCHANGED opsLeft

\* listProfiles resolved: the object records the token id, decrypts the token
\* and sends updateBearerToken.
Auth2ListProfilesOk(t) ==
    /\ t.pc = "listProfiles"
    /\ RegStep("Auth2ListProfilesOk", "Auth2", registry,
               IF t.inst = registry.Auth2.instance
               THEN [auth2 EXCEPT !.ssoTokenId = t.tok] ELSE auth2,
               (restores \ {t}) \cup {[t EXCEPT !.pc = "updateBearerToken", !.tok = "none"]},
               session, "none", t.inst, "none", "updateBearerToken", "none")
    /\ UNCHANGED opsLeft

\* updateBearerToken resolved: updateAuthState('connected') on the object that
\* started the fetch.
Auth2UpdateBearerTokenOk(t) ==
    /\ t.pc = "updateBearerToken"
    /\ RegStep("Auth2UpdateBearerTokenOk", "Auth2", registry,
               IF t.inst = registry.Auth2.instance
               THEN [auth2 EXCEPT !.authState = "connected"] ELSE auth2,
               restores \ {t}, session, "none", t.inst, "none", "none", "connected")
    /\ UNCHANGED opsLeft

\* One of the requests is rejected: nothing catches it, the fetch is dropped.
Auth2RestoreFail(t) ==
    /\ RegStep("Auth2RestoreFail", "Auth2", registry, auth2, restores \ {t}, session,
               "none", t.inst, E_UNKNOWN, "none", "none")
    /\ UNCHANGED opsLeft

\* Auth2.logout(), up to its first await: the invalidation request when the
\* object holds a token id, else storeState(undefined).
Auth2Logout ==
    /\ RegCall
    /\ ~instanceNotReady(registry.Auth2)
    /\ IF auth2.ssoTokenId # "undefined"
       THEN RegStep("Auth2Logout", "Auth2", registry, auth2,
                    restores \cup {[inst |-> registry.Auth2.instance,
                                    pc |-> "invalidateSsoToken", tok |-> "none"]},
                    session, "none", registry.Auth2.instance, "none",
                    "invalidateSsoToken", "none")
       ELSE RegStep("Auth2Logout", "Auth2", registry,
                    [auth2 EXCEPT !.profile = "undefined"],
                    restores \cup {[inst |-> registry.Auth2.instance,
                                    pc |-> "storeState", tok |-> "none"]},
                    session, "none", registry.Auth2.instance, "none", "none", "none")

\* The invalidation resolved: storeState(undefined).
Auth2InvalidateOk(t) ==
    /\ t.pc = "invalidateSsoToken"
    /\ RegStep("Auth2InvalidateOk", "Auth2", registry,
               [auth2 EXCEPT !.profile = "undefined"],
               (restores \ {t}) \cup {[t EXCEPT !.pc = "storeState"]},
               session, "none", t.inst, "none", "none", "none")
    /\ UNCHANGED opsLeft

\* storeState(undefined) resolved: deleteBearerToken,
\* updateAuthState('notConnected'), and logout returns.
Auth2StoreStateOk(t) ==
    /\ t.pc = "storeState"
    /\ RegStep("Auth2StoreStateOk", "Auth2", registry,
               IF t.inst = registry.Auth2.instance
               THEN [auth2 EXCEPT !.authState = "notConnected"] ELSE auth2,
               restores \ {t}, session, "none", t.inst, "none",
               "deleteBearerToken", "notConnected")
    /\ UNCHANGED opsLeft

\* Auth2.authenticate(startUrl, region), up to its first await: createProfile
\* sends updateProfile unless the start URL is the Builder ID one, then
\* storeState(profile).
Auth2Authenticate(startUrl) ==
    /\ RegCall
    /\ ~instanceNotReady(registry.Auth2)
    /\ IF ~skipsUpdateProfile(startUrl)
       THEN RegStep("Auth2Authenticate", "Auth2", registry, auth2,
                    restores \cup {[inst |-> registry.Auth2.instance, pc |-> "updateProfile",
                                    tok |-> "none", startUrl |-> startUrl]},
                    session, "none", registry.Auth2.instance, "none", "updateProfile", "none")
       ELSE RegStep("Auth2Authenticate", "Auth2", registry,
                    [auth2 EXCEPT !.profile = startUrl],
                    restores \cup {[inst |-> registry.Auth2.instance, pc |-> "storeProfile",
                                    tok |-> "none", startUrl |-> startUrl]},
                    session, "none", registry.Auth2.instance, "none", "none", "none")

\* updateProfile resolved: storeState(profile).
Auth2UpdateProfileOk(t) ==
    /\ t.pc = "updateProfile"
    /\ RegStep("Auth2UpdateProfileOk", "Auth2", registry,
               [auth2 EXCEPT !.profile = t.startUrl],
               (restores \ {t}) \cup {[t EXCEPT !.pc = "storeProfile"]},
               session, "none", t.inst, "none", "none", "none")
    /\ UNCHANGED opsLeft

\* storeState(profile) resolved: getToken(true) reads the stored profile and
\* throws without one, else it sends getSsoToken.
Auth2StoreProfileOk(t) ==
    /\ t.pc = "storeProfile"
    /\ IF auth2.profile = "undefined"
       THEN RegStep("Auth2StoreProfileOk", "Auth2", registry, auth2, restores \ {t},
                    session, "none", t.inst, ErrNoProfile, "none", "none")
       ELSE RegStep("Auth2StoreProfileOk", "Auth2", registry, auth2,
                    (restores \ {t}) \cup {[t EXCEPT !.pc = "getSsoToken"]},
                    session, "none", t.inst, "none", "getSsoToken", "none")
    /\ UNCHANGED opsLeft

IamConnections == [type : {"iam"}, state : AuthStates]

\* Before the language client has started: no registry object exists, the
\* persisted storage holds what an earlier run left.
RegistryInit ==
    /\ storage \in PersistedConnections \cup IamConnections
    /\ session = "undefined"
    /\ tasks = EmptyBag
    /\ lastEvent = "none"
    /\ last = NoStep
    /\ prev = NoCall
    /\ opsLeft = MaxOps
    /\ memento = noProfiles
    /\ cacheDir = [registrationFile |-> "missing", tokenFile |-> "missing"]
    /\ registered = undefined
    /\ mig = NoMigration
    /\ mlast = NoMigrationStep
    /\ registry = [AuthUtil |-> [instance |-> 0, constructed |-> 0],
                   Auth2 |-> [instance |-> 0, constructed |-> 0]]
    /\ auth2 \in {[NoAuth2 EXCEPT !.profile = p] : p \in {"undefined"} \cup StartUrls}
    /\ restores = {}
    /\ rlast = NoRegistryCall
    /\ flags = unsetFlags
    /\ handlers = {}
    /\ events = 0
    /\ hlast = NoHandlerStep
    /\ reauth = NoReauth
    /\ progress = NoProgress
    /\ yaml = NoYaml

RegistryNext ==
    \/ CreateAuthUtil
    \/ AuthUtilInstance
    \/ \E q \in {"getAuthState", "isConnected", "isConnectionExpired"} : AuthUtilQuery(q)
    \/ GetChatAuthState
    \/ CreateAuth2
    \/ Auth2Instance
    \/ Auth2GetAuthState
    \/ \E t \in restores, tokenId \in TokenIds : Auth2GetSsoTokenOk(t, tokenId)
    \/ \E t \in restores : Auth2ListProfilesOk(t)
    \/ \E t \in restores : Auth2UpdateBearerTokenOk(t)
    \/ \E t \in restores : Auth2RestoreFail(t)
    \/ Auth2Logout
    \/ \E t \in restores : Auth2InvalidateOk(t)
    \/ \E t \in restores : Auth2StoreStateOk(t)
    \/ \E startUrl \in StartUrls : Auth2Authenticate(startUrl)
    \/ \E t \in restores : Auth2UpdateProfileOk(t)
    \/ \E t \in restores : Auth2StoreProfileOk(t)

RegistrySpec == RegistryInit /\ [][RegistryNext]_vars

---------------------------------------------------------------------------
(* ConnectionManager's events and AuthUtil.stateChangeHandler              *)

\* setVscodeContextProps(state): the value of each context key.
contextProps(state) ==
    [connected |-> Bool(state = "connected"),
     showLoginView |-> Bool(state # "connected"),
     connectionExpired |-> Bool(state = "expired")]

\* The order in which setVscodeContextProps awaits its three setContext calls.
contextKeys == <<"connected", "showLoginView", "connectionExpired">>

\* The handler runs in flight.
Running == {h \in handlers : h.kind = "stateChangeHandler"}

\* updateConnectionState calls fire({id, state}) and only then
\* storage.update(id, {...oldConnection, state}): the listeners run, up to their
\* first await, inside fire, while the store still holds oldConnection.
storedAtFire(oldConnection, newConnection) == oldConnection

\* One step: the record st is stored, the event ev is fired (its handler runs
\* up to the first setContext it awaits), the handler run or call `old` is
\* replaced by `new`, and the handler numbered n has had the effect `effect`.
HandlerStep(act, st, ev, old, new, fl, n, s, effect, thrown, failed) ==
    LET fired == IF ev = "none" THEN {}
                 ELSE {[kind |-> "stateChangeHandler", n |-> events + 1, s |-> ev, pc |-> 1,
                        idc |-> isIdcConnection(st)]}
    IN  /\ storage' = st
        /\ lastEvent' = IF ev = "none" THEN lastEvent ELSE ev
        /\ events' = events + Cardinality(fired)
        /\ handlers' = ((handlers \ old) \cup new) \cup fired
        /\ flags' = fl
        /\ hlast' = [act |-> act, n |-> n, s |-> s, effect |-> effect, fired |-> ev,
                     req |-> IF ev = "none" THEN "none" ELSE stateChangeHandlerRequest(ev),
                     thrown |-> thrown,
                     nfired |-> Cardinality(fired),
                     idc |-> \E h \in old : h.idc,
                     maxn |-> IF effect # "none" /\ n > hlast.maxn THEN n ELSE hlast.maxn,
                     later |-> effect # "none" /\ hlast.maxn > n,
                     lastFired |-> IF ev = "none" THEN hlast.lastFired ELSE ev,
                     failed |-> hlast.failed \/ failed,
                     seen |-> IF ev = "none" THEN "none"
                              ELSE getAuthState(storedAtFire(storage, st)),
                     pre |-> storage]
        /\ UNCHANGED <<session, tasks, last, prev, migVars, regVars, uiVars>>

ManagerCall ==
    /\ Cardinality(handlers) < MaxTasks
    /\ opsLeft > 0
    /\ opsLeft' = opsLeft - 1

\* ConnectionManager.addConnection(conn)
AddConnection(startUrl, region) ==
    /\ ManagerCall
    /\ HandlerStep("AddConnection", SsoConnection(startUrl, region), "none", {}, {},
                   flags, 0, "none", "none", "none", FALSE)

\* ConnectionManager.updateConnectionState(id, state)
UpdateConnectionState(state) ==
    /\ ManagerCall
    /\ IF storage = undefined
       THEN HandlerStep("UpdateConnectionState", storage, "none", {}, {}, flags,
                        0, state, "none", ErrCannotUpdateState, FALSE)
       ELSE HandlerStep("UpdateConnectionState", updateConnectionState(storage, state),
                        eventOfUpdate(storage, state), {}, {}, flags,
                        0, state, "none", "none", FALSE)

\* ConnectionManager.deleteConnection(id), up to its await on the state update.
DeleteConnection ==
    /\ ManagerCall
    /\ IF storage = undefined
       THEN HandlerStep("DeleteConnection", storage, "none", {}, {}, flags,
                        0, "notConnected", "none", ErrCannotUpdateState, FALSE)
       ELSE HandlerStep("DeleteConnection", updateConnectionState(storage, "notConnected"),
                        eventOfUpdate(storage, "notConnected"), {},
                        {[kind |-> "deleteConnection", n |-> 0, s |-> "notConnected", pc |-> 0,
                          idc |-> FALSE]},
                        flags, 0, "notConnected", "none", "none", FALSE)

\* deleteConnection, after the await: storage.update(id, undefined).
DeleteConnectionUpdate(d) ==
    /\ d.kind = "deleteConnection"
    /\ HandlerStep("DeleteConnectionUpdate", storageDelete(storage), "none", {d}, {},
                   flags, 0, "notConnected", "none", "none", FALSE)
    /\ UNCHANGED opsLeft

\* A setContext the handler awaits has resolved: the key has its value, and
\* the handler goes on to the next setContext or to the refresh commands.
HandlerSetContextOk(h) ==
    /\ h.kind = "stateChangeHandler"
    /\ h.pc \in 1..3
    /\ HandlerStep("HandlerSetContextOk", storage, "none", {h}, {[h EXCEPT !.pc = h.pc + 1]},
                   [flags EXCEPT ![contextKeys[h.pc]] = contextProps(h.s)[contextKeys[h.pc]]],
                   h.n, h.s, contextKeys[h.pc], "none", FALSE)
    /\ UNCHANGED opsLeft

\* A setContext is rejected: the handler's promise rejects, nobody awaits it.
HandlerSetContextFail(h) ==
    /\ h.kind = "stateChangeHandler"
    /\ h.pc \in 1..3
    /\ HandlerStep("HandlerSetContextFail", storage, "none", {h}, {}, flags,
                   h.n, h.s, "none", ErrSetContext, TRUE)
    /\ UNCHANGED opsLeft

\* The two refresh commands have run: the handler reads the stored connection
\* and triggers notifyNewCustomizations, or not, and ends.
HandlerRefreshOk(h) ==
    /\ h.kind = "stateChangeHandler"
    /\ h.pc = 4
    /\ HandlerStep("HandlerRefreshOk", storage, "none", {h}, {}, flags, h.n, h.s,
                   IF h.s = "connected" /\ isIdcConnection(storage)
                   THEN "notifyNewCustomizations" ELSE "refresh",
                   "none", FALSE)
    /\ UNCHANGED opsLeft

\* AuthUtil has registered its listener; no context key is set yet.
HandlerInit ==
    /\ storage \in PersistedConnections
    /\ session = IF storage = undefined THEN "undefined" ELSE "sso"
    /\ tasks = EmptyBag
    /\ lastEvent = "none"
    /\ last = NoStep
    /\ prev = NoCall
    /\ opsLeft = MaxOps
    /\ memento = noProfiles
    /\ cacheDir = [registrationFile |-> "missing", tokenFile |-> "missing"]
    /\ registered = undefined
    /\ mig = NoMigration
    /\ mlast = NoMigrationStep
    /\ registry = registryCreated
    /\ auth2 = NoAuth2
    /\ restores = {}
    /\ rlast = NoRegistryCall
    /\ flags = unsetFlags
    /\ handlers = {}
    /\ events = 0
    /\ hlast = NoHandlerStep
    /\ reauth = NoReauth
    /\ progress = NoProgress
    /\ yaml = NoYaml

HandlerNext ==
    \/ \E startUrl \in StartUrls, region \in Regions : AddConnection(startUrl, region)
    \/ \E state \in AuthStates : UpdateConnectionState(state)
    \/ DeleteConnection
    \/ \E d \in handlers : DeleteConnectionUpdate(d)
    \/ \E h \in handlers : HandlerSetContextOk(h)
    \/ \E h \in handlers : HandlerSetContextFail(h)
    \/ \E h \in handlers : HandlerRefreshOk(h)

HandlerSpec == HandlerInit /\ [][HandlerNext]_vars

---------------------------------------------------------------------------
(* AuthUtil.showReauthenticatePrompt and AuthUtil.notifyReauthenticate     *)

\* showReauthenticatePrompt's early return.
skipsPrompt(isAutoTrigger, shown) == isAutoTrigger /\ shown

Trigger(isAutoTrigger) == IF isAutoTrigger THEN "auto" ELSE "manual"

\* showReauthenticatePrompt(isAutoTrigger) up to its await: it returns at once,
\* or showReauthenticateMessage is called and the call waits for it.
showReauthenticatePrompt(r, isAutoTrigger) ==
    IF skipsPrompt(isAutoTrigger, r.shown)
    THEN [r EXCEPT !.auto = isAutoTrigger, !.displayed = FALSE, !.n = @ + 1]
    ELSE [r EXCEPT !.open[Trigger(isAutoTrigger)] = @ + 1,
                   !.autoPrompts = IF isAutoTrigger THEN @ + 1 ELSE @,
                   !.auto = isAutoTrigger, !.displayed = TRUE, !.n = @ + 1]

\* One step: the registry's prompt state becomes r and the context keys fl.
ReauthStep(act, r, fl) ==
    /\ reauth' = [r EXCEPT !.act = act]
    /\ flags' = fl
    /\ UNCHANGED <<authVars, opsLeft, migVars, regVars, handlers, events, hlast,
                   progress, yaml>>

\* AuthUtil.showReauthenticatePrompt(isAutoTrigger), called directly.
ShowReauthenticatePrompt(isAutoTrigger) ==
    /\ reauth.n < MaxEvents
    /\ ReauthStep("ShowReauthenticatePrompt",
                  showReauthenticatePrompt(reauth, isAutoTrigger), flags)

\* AuthUtil.notifyReauthenticate(isAutoTrigger): the prompt is started and not
\* awaited, then setVscodeContextProps() is awaited.
NotifyReauthenticate(isAutoTrigger) ==
    /\ reauth.n < MaxEvents
    /\ ReauthStep("NotifyReauthenticate",
                  [showReauthenticatePrompt(reauth, isAutoTrigger) EXCEPT !.setContext = @ + 1],
                  flags)

\* showReauthenticateMessage resolved: an auto-triggered call sets
\* reauthenticatePromptShown.
PromptResolved(trigger) ==
    /\ reauth.open[trigger] > 0
    /\ ReauthStep("PromptResolved",
                  [reauth EXCEPT !.open[trigger] = @ - 1,
                                 !.shown = IF trigger = "auto" THEN TRUE ELSE @],
                  flags)

\* The setContext calls notifyReauthenticate awaits have resolved.
NotifySetContextOk ==
    /\ reauth.setContext > 0
    /\ ReauthStep("NotifySetContextOk", [reauth EXCEPT !.setContext = @ - 1],
                  contextProps(getAuthState(storage)))

\* One of them is rejected: notifyReauthenticate rejects.
NotifySetContextFail ==
    /\ reauth.setContext > 0
    /\ ReauthStep("NotifySetContextFail", [reauth EXCEPT !.setContext = @ - 1], flags)

\* The registry has been created for the stored connection.
ReauthInit ==
    /\ storage \in PersistedConnections
    /\ session = IF storage = undefined THEN "undefined" ELSE "sso"
    /\ tasks = EmptyBag
    /\ lastEvent = "none"
    /\ last = NoStep
    /\ prev = NoCall
    /\ opsLeft = MaxOps
    /\ memento = noProfiles
    /\ cacheDir = [registrationFile |-> "missing", tokenFile |-> "missing"]
    /\ registered = undefined
    /\ mig = NoMigration
    /\ mlast = NoMigrationStep
    /\ registry = registryCreated
    /\ auth2 = NoAuth2
    /\ restores = {}
    /\ rlast = NoRegistryCall
    /\ flags = unsetFlags
    /\ handlers = {}
    /\ events = 0
    /\ hlast = NoHandlerStep
    /\ reauth = NoReauth
    /\ progress = NoProgress
    /\ yaml = NoYaml

ReauthNext ==
    \/ \E isAutoTrigger \in BOOLEAN : ShowReauthenticatePrompt(isAutoTrigger)
    \/ \E isAutoTrigger \in BOOLEAN : NotifyReauthenticate(isAutoTrigger)
    \/ \E trigger \in {"auto", "manual"} : PromptResolved(trigger)
    \/ NotifySetContextOk
    \/ NotifySetContextFail

ReauthSpec == ReauthInit /\ [][ReauthNext]_vars

---------------------------------------------------------------------------
(* startLanguageServer: the handler of GetSsoTokenProgress messages        *)

\* The states a progress message carries: 'InProgress', or any other one.
ProgressStates == {"InProgress", "Complete"}

\* A branch that opens the next notification without resolving the previous one.
C38_KeepsPrevious(p) == {}

\* The 'InProgress' branch: if (promise) { resolver() }. The promises it
\* resolves.
resolvedByInProgress(p) == IF p.promise # 0 THEN {p.resolver} ELSE {}

\* The other branch: resolver(), whatever promise is.
resolvedByOther(p) == {p.resolver}

\* The progress notifications whose task still awaits an unresolved promise.
Unresolved == progress.notifications \cap progress.unresolved

\* One step of the handler or of a notification.
ProgressStep(act, state, p) ==
    /\ progress' = [p EXCEPT !.act = act, !.state = state]
    /\ UNCHANGED <<authVars, opsLeft, migVars, regVars, handlerVars, reauth, yaml>>

\* A progress message arrives: the handler starts and awaits compactDecrypt.
OnProgress(state) ==
    /\ progress.n < MaxEvents
    /\ ProgressStep("OnProgress", state,
                    [progress EXCEPT !.n = @ + 1, !.decrypting[state] = @ + 1])

\* compactDecrypt resolved: the rest of the handler runs without another await.
\* 'InProgress' resolves the previous promise, makes a new one and opens a
\* notification (withProgress) whose task awaits it; any other state resolves
\* the promise and clears it.
DecryptOk(state) ==
    /\ progress.decrypting[state] > 0
    /\ LET p == [progress EXCEPT !.decrypting[state] = @ - 1]
           new == progress.made + 1
       IN  IF state = "InProgress"
           THEN ProgressStep("DecryptOk", state,
                    [p EXCEPT !.unresolved = (@ \ resolvedByInProgress(progress)) \cup {new},
                              !.promise = new, !.resolver = new, !.made = new,
                              !.notifications = @ \cup {new}])
           ELSE ProgressStep("DecryptOk", state,
                    [p EXCEPT !.unresolved = @ \ resolvedByOther(progress),
                              !.promise = 0])

\* compactDecrypt or JSON.parse throws: the handler rejects before its branches.
DecryptFail(state) ==
    /\ progress.decrypting[state] > 0
    /\ ProgressStep("DecryptFail", state, [progress EXCEPT !.decrypting[state] = @ - 1])

\* The promise a notification's task awaits is resolved: the task returns and
\* the notification closes.
ProgressEnd(k) ==
    /\ k \in progress.notifications \ progress.unresolved
    /\ ProgressStep("ProgressEnd", progress.state,
                    [progress EXCEPT !.notifications = @ \ {k}])

\* The language client has started; no progress message has arrived.
ProgressInit ==
    /\ storage = undefined
    /\ session = "undefined"
    /\ tasks = EmptyBag
    /\ lastEvent = "none"
    /\ last = NoStep
    /\ prev = NoCall
    /\ opsLeft = MaxOps
    /\ memento = noProfiles
    /\ cacheDir = [registrationFile |-> "missing", tokenFile |-> "missing"]
    /\ registered = undefined
    /\ mig = NoMigration
    /\ mlast = NoMigrationStep
    /\ registry = registryCreated
    /\ auth2 = NoAuth2
    /\ restores = {}
    /\ rlast = NoRegistryCall
    /\ flags = unsetFlags
    /\ handlers = {}
    /\ events = 0
    /\ hlast = NoHandlerStep
    /\ reauth = NoReauth
    /\ progress = NoProgress
    /\ yaml = NoYaml

ProgressNext ==
    \/ \E state \in ProgressStates : OnProgress(state)
    \/ \E state \in ProgressStates : DecryptOk(state)
    \/ \E state \in ProgressStates : DecryptFail(state)
    \/ \E k \in progress.notifications : ProgressEnd(k)

ProgressSpec == ProgressInit /\ [][ProgressNext]_vars

---------------------------------------------------------------------------
(* createYamlExtensionPrompt and promptInstallYamlPlugin                   *)

\* File names, as their parts; a document's uri is its file name.
Documents ==
    {<<"app/", "template", ".yaml">>, <<"my", "template", ".yml">>, <<"notes", ".yaml">>}

noEditor == <<>>

endsWith(fileName, suffix) ==
    /\ Len(fileName) >= Len(suffix)
    /\ SubSeq(fileName, Len(fileName) - Len(suffix) + 1, Len(fileName)) = suffix

\* fileName.endsWith('template.yaml') || fileName.endsWith('template.yml')
isTemplateYaml(fileName) ==
    \/ endsWith(fileName, <<"template", ".yaml">>)
    \/ endsWith(fileName, <<"template", ".yml">>)

\* The three listeners registered with yamlPromptDisposables.
promptTriggers == {"open", "editor", "change"}

\* A prompt that leaves the triggers registered.
C39_KeepsTriggers(triggers) == triggers

\* promptInstallYamlPlugin: for (const prompt of disposables) prompt.dispose()
disposeAll(triggers) == {}

\* promptInstallYamlPlugin(disposables) up to its await: the triggers are
\* disposed and the message is shown; origin is the document whose change
\* asked for it, if one did.
promptInstallYamlPlugin(y, origin) ==
    [y EXCEPT !.triggers = disposeAll(@), !.open = Append(@, origin),
              !.prompts = @ + 1, !.prompted = TRUE]

\* One event: the state of the prompt becomes y.
YamlStep(act, wanted, y) ==
    /\ yaml' = [y EXCEPT !.act = act, !.wanted = wanted, !.n = yaml.n + 1]
    /\ UNCHANGED <<authVars, opsLeft, migVars, regVars, handlerVars, reauth, progress>>

YamlEvent == yaml.created /\ yaml.n < MaxEvents

Quiet == [yaml EXCEPT !.prompted = FALSE]

\* createYamlExtensionPrompt(): when the prompt is enabled, the IDE is VS Code
\* and the YAML extension is missing, the listeners are registered, and a
\* visible template editor asks for the prompt at once.
CreateYamlExtensionPrompt(enabled, visible) ==
    /\ ~yaml.created
    /\ LET y == [Quiet EXCEPT !.created = TRUE,
                              !.triggers = IF enabled THEN promptTriggers ELSE {},
                              !.closeListener = enabled]
           openTemplateYamls == {f \in visible : isTemplateYaml(f)}
       IN  IF enabled /\ openTemplateYamls # {}
           THEN YamlStep("CreateYamlExtensionPrompt", TRUE, promptInstallYamlPlugin(y, noEditor))
           ELSE YamlStep("CreateYamlExtensionPrompt", FALSE, y)

\* onDidOpenTextDocument: promptInstallYamlPluginFromFilename(doc.fileName)
DidOpenTextDocument(doc) ==
    /\ YamlEvent
    /\ IF "open" \in yaml.triggers /\ isTemplateYaml(doc)
       THEN YamlStep("DidOpenTextDocument", TRUE, promptInstallYamlPlugin(Quiet, noEditor))
       ELSE YamlStep("DidOpenTextDocument", isTemplateYaml(doc), Quiet)

\* onDidChangeActiveTextEditor: promptInstallYamlPluginFromEditor(editor)
DidChangeActiveTextEditor(editor) ==
    /\ YamlEvent
    /\ IF "editor" \in yaml.triggers /\ editor # noEditor /\ isTemplateYaml(editor)
       THEN YamlStep("DidChangeActiveTextEditor", TRUE,
                     promptInstallYamlPlugin(Quiet, noEditor))
       ELSE YamlStep("DidChangeActiveTextEditor",
                     editor # noEditor /\ isTemplateYaml(editor), Quiet)

\* onDidChangeTextDocument: for a YAML document without a pending prompt, while
\* the YAML extension is missing, promptOnAWSTemplateFormatVersion prompts when
\* a changed line holds 'AWSTemplateFormatVersion'; the document stays in
\* promptNotifications until that call has ended.
DidChangeTextDocument(doc, languageId, installed, hasKey) ==
    /\ YamlEvent
    /\ LET asks == /\ languageId = "yaml"
                   /\ ~installed
                   /\ doc \notin yaml.promptNotifications
                   /\ hasKey
       IN  IF "change" \in yaml.triggers /\ asks
           THEN YamlStep("DidChangeTextDocument", TRUE,
                         promptInstallYamlPlugin(
                             [Quiet EXCEPT !.promptNotifications = @ \cup {doc}], doc))
           ELSE YamlStep("DidChangeTextDocument", asks, Quiet)

\* onDidCloseTextDocument: promptNotifications.delete(uri); this listener is
\* not one of the disposables.
DidCloseTextDocument(doc) ==
    /\ YamlEvent
    /\ YamlStep("DidCloseTextDocument", FALSE,
                IF yaml.closeListener
                THEN [Quiet EXCEPT !.promptNotifications = @ \ {doc}]
                ELSE Quiet)

\* The user answers the i-th message on screen (or dismisses it):
\* promptInstallYamlPlugin returns and the call that awaited it removes its
\* document from promptNotifications.
YamlPromptAnswered(i) ==
    /\ i \in 1..Len(yaml.open)
    /\ yaml' = [Quiet EXCEPT !.open = SubSeq(@, 1, i - 1) \o SubSeq(@, i + 1, Len(@)),
                             !.promptNotifications = @ \ {yaml.open[i]},
                             !.act = "YamlPromptAnswered", !.wanted = FALSE]
    /\ UNCHANGED <<authVars, opsLeft, migVars, regVars, handlerVars, reauth, progress>>

\* The extension is being activated.
YamlInit ==
    /\ storage = undefined
    /\ session = "undefined"
    /\ tasks = EmptyBag
    /\ lastEvent = "none"
    /\ last = NoStep
    /\ prev = NoCall
    /\ opsLeft = MaxOps
    /\ memento = noProfiles
    /\ cacheDir = [registrationFile |-> "missing", tokenFile |-> "missing"]
    /\ registered = undefined
    /\ mig = NoMigration
    /\ mlast = NoMigrationStep
    /\ registry = registryCreated
    /\ auth2 = NoAuth2
    /\ restores = {}
    /\ rlast = NoRegistryCall
    /\ flags = unsetFlags
    /\ handlers = {}
    /\ events = 0
    /\ hlast = NoHandlerStep
    /\ reauth = NoReauth
    /\ progress = NoProgress
    /\ yaml = NoYaml

YamlNext ==
    \/ \E enabled \in BOOLEAN, visible \in SUBSET Documents :
          CreateYamlExtensionPrompt(enabled, visible)
    \/ \E doc \in Documents : DidOpenTextDocument(doc)
    \/ \E editor \in Documents \cup {noEditor} : DidChangeActiveTextEditor(editor)
    \/ \E doc \in Documents, languageId \in {"yaml", "json"}, installed \in BOOLEAN,
          hasKey \in BOOLEAN : DidChangeTextDocument(doc, languageId, installed, hasKey)
    \/ \E doc \in Documents : DidCloseTextDocument(doc)
    \/ \E i \in 1..Len(yaml.open) : YamlPromptAnswered(i)

YamlSpec == YamlInit /\ [][YamlNext]_vars

---------------------------------------------------------------------------
(* Properties *)

\* The step just taken ended its call: it returned or it threw.
Finished == last.outcome \in {"ok", "threw"}

\* C1: when a logout returns (after a login that succeeded or failed, or after
\* anything else), the auth state is notConnected and no connection record
\* (startUrl, region, scopes, tokenId) is stored any more.
C1_LogoutClearsConnection ==
    (last.op = "logout" /\ last.outcome = "ok")
        => (getAuthState(storage) = "notConnected" /\ storage = undefined)

\* A login has ended, then a logout has deleted the record and returned.
C1_LoginThenLogout ==
    /\ last.act = "AfterDeleteState" /\ last.op = "logout" /\ last.outcome = "ok"
    /\ last.pre # undefined
    /\ prev.op = "login"
    /\ storage = undefined

C3_CannotRefreshExpires ==
    (/\ last.act = "GetSsoTokenFail" /\ last.perr = E_CANNOT_REFRESH_SSO_TOKEN
     /\ last.st0 = "connected" /\ getAuthState(last.pre) = "connected")
        => getAuthState(storage) = "expired"

\* C4: a token fetch that fails with E_CANCELLED, E_SSO_SESSION_NOT_FOUND,
\* E_PROFILE_NOT_FOUND or E_INVALID_SSO_TOKEN leaves the state notConnected,
\* whatever it was before.
C4_FailedFetchNotConnected ==
    (/\ last.act = "GetSsoTokenFail"
     /\ last.perr \in {E_CANCELLED, E_SSO_SESSION_NOT_FOUND,
                       E_PROFILE_NOT_FOUND, E_INVALID_SSO_TOKEN})
        => getAuthState(storage) = "notConnected"

\* C5: an ssoTokenChanged notification of kind Expired for the recorded token
\* id, received while connected, makes the state expired and fires the
\* expired event.
C5_ExpiredNotificationExpires ==
    (/\ last.act = "SsoTokenChanged" /\ last.kind = "Expired"
     /\ getAuthState(last.pre) = "connected" /\ last.ntok = tokenIdOf(last.pre))
        => (getAuthState(storage) = "expired" /\ last.ev = "expired")

\* C6: an ssoTokenChanged notification whose token id is not the recorded one
\* changes nothing: same stored connection, no event, no request to the peer,
\* and the handler returns.
C6_ForeignNotificationIgnored ==
    (last.act = "SsoTokenChanged" /\ last.ntok # tokenIdOf(last.pre))
        => /\ storage = last.pre
           /\ last.ev = "none"
           /\ last.req = "none"
           /\ last.outcome = "ok"

\* A Refreshed notification for another token id reached a connected session.
C6_ForeignRefreshedWhileConnected ==
    /\ last.act = "SsoTokenChanged" /\ last.kind = "Refreshed"
    /\ getAuthState(last.pre) = "connected"
    /\ last.ntok # tokenIdOf(last.pre)
    /\ storage = last.pre

\* C7: however a logout of an SSO session ends, also when the peer's
\* invalidateSsoToken fails, the connection record is gone and the state is
\* notConnected.
C7_LogoutAlwaysResets ==
    (last.op = "logout" /\ Finished)
        => (storage = undefined /\ getAuthState(storage) = "notConnected")

\* C8: restore() always returns normally, and when its token fetch failed the
\* state it leaves is notConnected.
C8_RestoreNeverThrows ==
    (last.op = "restore" /\ Finished)
        => /\ last.outcome = "ok"
           /\ last.perr # "none" => getAuthState(storage) = "notConnected"

\* C9: an interactive token request (login, relogin) that ends as cancelled
\* throws E_CANCELLED and leaves the state notConnected.
C9_CancelledInteractiveNotConnected ==
    (/\ last.act = "GetSsoTokenFail" /\ last.perr = E_CANCELLED
     /\ last.op \in {"login", "relogin"})
        => (last.thrown = E_CANCELLED /\ getAuthState(storage) = "notConnected")

\* C10: a token request the peer failed throws the peer's own error to the
\* caller, whatever the code and whatever was done to the state.
C10_RethrowsPeerError ==
    (/\ last.act \in {"GetSsoTokenFail", "AfterDeleteState"}
     /\ last.op \in {"login", "relogin", "getToken"}
     /\ last.perr # "none" /\ Finished)
        => (last.outcome = "threw" /\ last.thrown = last.perr)

\* C11: a token fetch the peer fails with a code the switch does not name
\* leaves the stored connection, and so the auth state, exactly as it was, and
\* fires no state-change event.
C11_UnknownCodeChangesNothing ==
    (last.act = "GetSsoTokenFail" /\ last.perr = E_UNKNOWN)
        => (storage = last.pre /\ last.ev = "none")

\* A fetch of a connected session failed with an unnamed code and was rethrown.
C11_UnknownCodeWhileConnected ==
    /\ last.act = "GetSsoTokenFail" /\ last.perr = E_UNKNOWN
    /\ last.outcome = "threw" /\ last.thrown = E_UNKNOWN
    /\ getAuthState(last.pre) = "connected"
    /\ storage = last.pre

\* C12: when a token fetch has succeeded (the state update after it included),
\* the recorded tokenId is the id of the token it returns and the state is
\* connected.
C12_SuccessRecordsReturnedToken ==
    (/\ last.act = "AfterUpdateSsoTokenId"
     /\ ~(last.outcome = "threw" \/ last.pre = undefined))
        => (tokenIdOf(storage) = last.tok /\ getAuthState(storage) = "connected")

\* C13: with the state expired, a getToken() whose fetch fails with
\* E_CANNOT_REFRESH_SSO_TOKEN leaves the state expired and fires no event.
C13_CannotRefreshKeepsExpired ==
    (/\ last.act = "GetSsoTokenFail" /\ last.op = "getToken"
     /\ last.perr = E_CANNOT_REFRESH_SSO_TOKEN
     /\ getAuthState(last.pre) = "expired")
        => (getAuthState(storage) = "expired" /\ last.ev = "none")

\* getToken() of an expired session failed with E_CANNOT_REFRESH_SSO_TOKEN.
C13_CannotRefreshWhileExpired ==
    /\ last.act = "GetSsoTokenFail" /\ last.op = "getToken"
    /\ last.perr = E_CANNOT_REFRESH_SSO_TOKEN
    /\ last.st0 = "expired" /\ getAuthState(last.pre) = "expired"
    /\ last.outcome = "threw"
    /\ getAuthState(storage) = "expired"

\* C14, as claimed: relogin() of a session whose state is notConnected fails at
\* once and sends no request to the peer.
C14_NotConnectedReloginFails ==
    (last.act = "Relogin" /\ getAuthState(last.pre) = "notConnected")
        => (last.outcome = "threw" /\ last.req = "none")

\* C14, amended: relogin() with no SSO session or no stored connection record
\* fails at once with its own error, sends no request and leaves the storage
\* alone; with a record stored it sends the interactive getSsoToken request.
C14_ReloginGuard ==
    last.act = "Relogin"
        => /\ storage = last.pre /\ last.ev = "none"
           /\ IF last.pre = undefined
              THEN /\ last.outcome = "threw"
                   /\ last.thrown \in {ErrCannotReauthenticate, ErrReloginNoConnection}
                   /\ last.req = "none"
              ELSE last.outcome = "pending" /\ last.req = "getSsoToken:login"

\* relogin() after a logout has deleted the record.
C14_ReloginAfterLogout ==
    /\ last.act = "Relogin" /\ last.pre = undefined /\ session = "sso"
    /\ last.thrown = ErrReloginNoConnection /\ last.req = "none"

C17_ExpiredDeletesBearerToken ==
    /\ last.ev = "expired" => last.hreq = "deleteBearerToken"
    /\ last.ev = "connected" => last.hreq # "deleteBearerToken"

\* C18: every step of a call that changes the stored auth state fires a
\* state-change event that carries the new state.
C18_EveryTransitionFiresEvent ==
    (last.act # "Init" /\ getAuthState(storage) # getAuthState(last.pre))
        => last.ev = getAuthState(storage)

\* C19: a step of a call makes the state expired only when the state was
\* connected: expired is never entered from notConnected.
C19_ExpiredOnlyFromConnected ==
    (/\ last.act # "Init"
     /\ getAuthState(storage) = "expired" /\ getAuthState(last.pre) # "expired")
        => getAuthState(last.pre) = "connected"

\* C20: a migration started after an earlier run imported a profile returns at
\* once without error: it sends no updateProfile, moves no file and leaves the
\* legacy store, the cache directory and the registered profile as they were.
C20_SecondMigrationIsNoOp ==
    (mlast.act = "MigrateExistingConnection" /\ mlast.imported)
        => /\ mlast.outcome = "ok"
           /\ mlast.req = "none"
           /\ mig = NoMigration
           /\ <<memento, cacheDir, registered>> = mlast.pre

\* C20 witness: a second run was started after a run that registered the
\* profile, moved both files and cleared the store.
C20_MigratedTwice ==
    /\ mlast.act = "MigrateExistingConnection"
    /\ mlast.imported
    /\ registered # undefined
    /\ cacheDir.registrationFile \notin {"legacy", "missing"}
    /\ cacheDir.tokenFile = toTokenFileName

\* The queries made through AuthUtil.instance.
AuthUtilQueries == {"getAuthState", "isConnected", "isConnectionExpired"}

\* C21: a registry asked for its instance, or queried through it, before it was
\* created throws the 'not ready' error: it returns no stub and no default state.
C21_QueryBeforeCreateFails ==
    (/\ rlast.act \in {"Instance"} \cup AuthUtilQueries
     /\ rlast.pre[4][rlast.cls].instance = 0)
        => rlast.thrown = ErrNotReady

\* C22: a create() on a registry that already has its object returns that
\* object and constructs no other.
C22_CreateReturnsSameRegistry ==
    (rlast.act = "Create" /\ rlast.pre[4][rlast.cls].instance # 0)
        => /\ rlast.obj = rlast.pre[4][rlast.cls].instance
           /\ registry = rlast.pre[4]

\* C23: getAuthState, isConnected and isConnectionExpired of AuthUtil change
\* nothing, send nothing and fire nothing; getAuthState answers notConnected
\* when no connection is stored; isConnected and isConnectionExpired are never
\* both true.
C23_GetAuthStateIsPure ==
    /\ (rlast.cls = "AuthUtil" /\ rlast.act \in AuthUtilQueries)
          => /\ <<storage, lastEvent, session, registry, auth2>> = rlast.pre
             /\ rlast.req = "none"
             /\ rlast.ev = "none"
             /\ (rlast.act = "getAuthState" /\ rlast.thrown = "none" /\ storage = undefined)
                   => rlast.result = "notConnected"
             /\ (rlast.act = "getAuthState" /\ rlast.thrown = "none" /\ storage # undefined)
                   => rlast.result = storage.state
    /\ ~(isConnected(storage) /\ isConnectionExpired(storage))

\* C23 witness: getAuthState answered without a stored connection.
C23_QueriedWithoutConnection ==
    /\ rlast.cls = "AuthUtil"
    /\ rlast.act = "getAuthState"
    /\ rlast.thrown = "none"
    /\ storage = undefined
    /\ rlast.result = "notConnected"

\* The attributes a login gives the record.
attributes(c) == <<c.type, c.startUrl, c.region, c.scopes>>

\* The step of a login that stores its record: addConnection.
StoresRecord ==
    \/ last.act = "UpdateProfileOk"
    \/ last.act = "Login" /\ skipsUpdateProfile(last.startUrl)

\* C24: the storage holds at most one record for the profile name (it is one
\* entry); a login's addConnection replaces it with the record of that login,
\* not connected and without token id, and no other step creates a record or
\* changes the attributes of the stored one.
C24_RecordOfLastLogin ==
    last.act # "Init" =>
        IF StoresRecord
        THEN /\ storage # undefined
             /\ attributes(storage) = <<"sso", last.startUrl, last.region, amazonQScopes>>
             /\ storage.state = "notConnected"
             /\ storage.tokenId = "undefined"
        ELSE \/ storage = undefined
             \/ last.pre # undefined /\ attributes(storage) = attributes(last.pre)

\* C24 witness: a login replaced the record of a login with another start URL.
C24_LoginReplacedRecord ==
    /\ StoresRecord
    /\ last.pre # undefined
    /\ last.pre.startUrl # last.startUrl
    /\ storage.startUrl = last.startUrl

\* C25: the stored record has the fields type, startUrl, region, scopes, state
\* and tokenId only, and tokenId is the id of a token or absent: never the
\* encrypted or decrypted access token.
C25_NoAccessTokenPersisted ==
    storage # undefined =>
        /\ DOMAIN storage = {"type", "startUrl", "region", "scopes", "state", "tokenId"}
        /\ storage.tokenId \in TokenIds \cup {"undefined"}
        /\ \A id \in TokenIds : storage.tokenId # SsoToken(id).accessToken

\* C25 witness: getToken returned a token and the record holds its id.
C25_TokenIdRecorded ==
    /\ last.op = "getToken"
    /\ last.outcome = "ok"
    /\ storage # undefined
    /\ storage.tokenId \in TokenIds

\* C26: login sends updateProfile first unless the start URL is Builder ID's;
\* the interactive getSsoToken request of a login is sent only by the step that
\* follows addConnection, which a login with another start URL reaches only
\* when updateProfile has succeeded; a rejected updateProfile ends the login
\* with no request sent and the stored connection as it was.
C26_UpdateProfileBeforeToken ==
    /\ last.act = "Login" =>
          IF last.startUrl = builderIdStartUrl
          THEN last.req = "none" /\ last.pc = "addConnection"
          ELSE /\ last.req = "updateProfile"
               /\ last.pc = "updateProfile"
               /\ last.outcome = "pending"
               /\ storage = last.pre
    /\ (last.op = "login" /\ last.pc = "addConnection" /\ last.outcome = "pending")
          => StoresRecord
    /\ (last.op = "login" /\ last.req \in {"getSsoToken", "getSsoToken:login"})
          => last.act = "AfterAddConnection" /\ last.req = "getSsoToken:login"
    /\ last.act = "UpdateProfileOk" => last.req = "none"
    /\ last.act = "UpdateProfileFail"
          => /\ last.outcome = "threw"
             /\ last.req = "none"
             /\ last.ev = "none"
             /\ storage = last.pre
    /\ \A t \in InFlight : t.pc = "updateProfile" => t.startUrl # builderIdStartUrl

\* C26 witness: the token request of a login that had to register its profile.
C26_TokenRequestAfterUpdateProfile ==
    /\ last.act = "AfterAddConnection"
    /\ last.req = "getSsoToken:login"
    /\ storage # undefined
    /\ storage.startUrl = idcStartUrl

\* C27: when a run of the state-change handler for the state s ends, the three
\* context keys have the values setVscodeContextProps gives them for s; the
\* connected key and the connection-expired key are never both set.
C27_FlagsMatchHandledState ==
    /\ hlast.act = "HandlerRefreshOk" => flags = contextProps(hlast.s)
    /\ ~(flags.connected = "true" /\ flags.connectionExpired = "true")

\* C28: a run of the handler that ends triggers notifyNewCustomizations exactly
\* when its event was a change to connected of an IAM Identity Center
\* connection.
C28_NotifiesIffConnectedIdc ==
    hlast.act = "HandlerRefreshOk"
        => (hlast.effect = "notifyNewCustomizations"
               <=> (hlast.s = "connected" /\ hlast.idc))

\* C29: no handler has an effect after the handler of a later event has had
\* one; once every handler has ended (none of them rejected), the context keys
\* are those of the state of the last event.
C29_HandlersDoNotRace ==
    /\ ~hlast.later
    /\ (Running = {} /\ hlast.lastFired # "none" /\ ~hlast.failed)
          => flags = contextProps(hlast.lastFired)

\* C30: updateConnectionState fires one event, carrying the requested state,
\* when that state differs from the stored one and none when it is equal;
\* deleteConnection fires notConnected iff the stored state was not
\* notConnected; neither fires when it throws for want of a record.
C30_FiresIffStateDiffers ==
    /\ (hlast.act = "UpdateConnectionState" /\ hlast.thrown = "none")
          => IF hlast.s # getAuthState(hlast.pre)
             THEN hlast.fired = hlast.s /\ hlast.nfired = 1
             ELSE hlast.fired = "none" /\ hlast.nfired = 0
    /\ (hlast.act = "DeleteConnection" /\ hlast.thrown = "none")
          => IF getAuthState(hlast.pre) # "notConnected"
             THEN hlast.fired = "notConnected" /\ hlast.nfired = 1
             ELSE hlast.fired = "none" /\ hlast.nfired = 0
    /\ (hlast.act \in {"UpdateConnectionState", "DeleteConnection"} /\ hlast.thrown # "none")
          => hlast.pre = undefined /\ hlast.nfired = 0

\* C30 witness: deleteConnection on a connected or expired record fired.
C30_DeleteFired ==
    /\ hlast.act = "DeleteConnection"
    /\ hlast.pre # undefined
    /\ hlast.pre.state # "notConnected"
    /\ hlast.fired = "notConnected"
    /\ lastEvent = "notConnected"

\* C31: the profile the migration imports is a stored SSO profile whose scopes
\* are exactly amazonQScopes, and it is marked valid whenever some such profile
\* is marked valid; a run that finds no such profile sends no updateProfile,
\* moves no file and leaves the legacy store as it was.
C31_ImportsExactScopeProfile ==
    /\ mig.pc # "idle"
          => /\ memento.present
             /\ \E i \in 1..Len(memento.profiles) : memento.profiles[i] = mig.toImport
             /\ mig.toImport.type = "sso"
             /\ mig.toImport.scopes = amazonQScopes
             /\ (\E i \in 1..Len(memento.profiles) :
                    /\ memento.profiles[i].type = "sso"
                    /\ memento.profiles[i].scopes = amazonQScopes
                    /\ memento.profiles[i].connectionState = "valid")
                   => mig.toImport.connectionState = "valid"
    /\ (/\ mlast.act = "MigrateExistingConnection"
        /\ \/ ~mlast.pre[1].present
           \/ \A i \in 1..Len(mlast.pre[1].profiles) :
                 \/ mlast.pre[1].profiles[i].type # "sso"
                 \/ mlast.pre[1].profiles[i].scopes # amazonQScopes)
          => /\ mlast.req = "none"
             /\ mlast.outcome = "ok"
             /\ mig = NoMigration
             /\ <<memento, cacheDir, registered>> = mlast.pre

\* C31 witness: the store lists a valid profile with the exact scopes before an
\* invalid one with the exact scopes, and the migration is importing.
C31_ValidBeforeInvalid ==
    /\ mig.pc = "updateProfile"
    /\ Len(memento.profiles) = 2
    /\ \A i \in 1..2 : /\ memento.profiles[i].type = "sso"
                       /\ memento.profiles[i].scopes = amazonQScopes
    /\ memento.profiles[1].connectionState = "valid"
    /\ memento.profiles[2].connectionState = "invalid"

\* C32: the legacy store changes only in the step that follows the
\* re-registration and both file moves, so when it was cleared the profile is
\* registered and both cache files are at their hashed paths; a run that fails at
\* updateProfile or at either rename ends with the store as it was, and the
\* next run starts the import again.
C32_ClearedOnlyAfterRelocation ==
    /\ (mlast.act # "none" /\ memento # mlast.pre[1])
          => /\ mlast.act = "ClearProfiles"
             /\ memento = noProfiles
             /\ registered # undefined
             /\ cacheDir.registrationFile =
                   toRegistrationFileName([ssoRegion |-> registered.region,
                                           startUrl |-> registered.startUrl])
             /\ cacheDir.tokenFile = toTokenFileName
    /\ mlast.outcome = "threw"
          => /\ memento = mlast.pre[1]
             /\ memento.present
             /\ toImport(memento.profiles) # undefined
             /\ mig = NoMigration

\* C32 witness: the second move failed after the profile was registered and the
\* registration file moved; the store still lists the profile.
C32_TokenMoveFailed ==
    /\ mlast.act = "RenameTokenFail"
    /\ mlast.outcome = "threw"
    /\ registered # undefined
    /\ cacheDir.registrationFile \notin {"legacy", "missing"}
    /\ cacheDir.tokenFile \in {"legacy", "missing"}
    /\ memento.present

\* C33: when a listener is invoked with state s, getAuthState() called
\* synchronously inside it returns s.
C33_ListenerSeesNewState ==
    hlast.fired # "none" => hlast.seen = hlast.fired

\* C34: a logout() called while no connection record is stored returns without
\* error, sends no request and leaves the state notConnected.
C34_LogoutWithoutConnectionIsSafe ==
    (last.act = "Logout" /\ last.pre = undefined)
        => /\ last.outcome = "ok"
           /\ last.thrown = "none"
           /\ last.req = "none"
           /\ getAuthState(storage) = "notConnected"

C36_ConnectedOnlyWithProfile ==
    /\ auth2.authState = "connected" => auth2.profile # "undefined"
    /\ rlast.ev = "connected" => auth2.profile # "undefined"

\* C37: at most one auto-triggered reauthenticate prompt is shown, and a call
\* that is not auto-triggered always shows its prompt.
C37_AutoPromptShownOnce ==
    /\ reauth.autoPrompts <= 1
    /\ (reauth.act \in {"ShowReauthenticatePrompt", "NotifyReauthenticate"} /\ ~reauth.auto)
          => reauth.displayed

\* C38: at most one progress notification awaits an unresolved promise at any
\* time, and when a message whose state is not 'InProgress' has been processed
\* none does.
C38_OneOpenNotification ==
    /\ Cardinality(Unresolved) <= 1
    /\ (progress.act = "DecryptOk" /\ progress.state # "InProgress") => Unresolved = {}

\* C38 witness: the handler has processed two 'InProgress' messages and then
\* one of another state.
C38_ClosedAfterTwoInProgress ==
    /\ progress.act = "DecryptOk"
    /\ progress.state = "Complete"
    /\ progress.made >= 2
    /\ progress.promise = 0

\* C39: the prompt to install the YAML extension is shown at most once, whatever
\* document-open, editor-change and document-change events occur.
C39_YamlPromptShownOnce == yaml.prompts <= 1

\* C39 witness: after the prompt was shown, a template file is opened and no
\* second prompt appears.
C39_TemplateOpenedAfterPrompt ==
    /\ yaml.act = "DidOpenTextDocument"
    /\ yaml.wanted
    /\ ~yaml.prompted
    /\ yaml.prompts = 1
    /\ yaml.closeListener

\* C40: the object getChatAuthState() returns has three equal fields, each
\* 'disconnected' when the auth state is notConnected and the auth state itself
\* otherwise, and the call leaves the stored connection, the session and the
\* registries as they were and fires no event.
C40_ChatAuthStateIsShared ==
    (rlast.act = "getChatAuthState" /\ rlast.thrown = "none")
        => /\ rlast.chat.codewhispererCore = rlast.chat.codewhispererChat
           /\ rlast.chat.codewhispererChat = rlast.chat.amazonQ
           /\ rlast.chat.amazonQ =
                 IF getAuthState(rlast.pre[1]) = "notConnected"
                 THEN "disconnected" ELSE getAuthState(rlast.pre[1])
           /\ <<storage, lastEvent, session, registry, auth2>> = rlast.pre
           /\ rlast.ev = "none"
           /\ rlast.req = "none"

\* C40 witness: getChatAuthState answered 'disconnected' three times while no
\* connection was stored.
C40_DisconnectedReported ==
    /\ rlast.act = "getChatAuthState"
    /\ rlast.thrown = "none"
    /\ getAuthState(storage) = "notConnected"
    /\ rlast.chat.codewhispererCore = "disconnected"

====
